---- MODULE Spec2Model ----
(***************************************************************************)
(* Model of the Shopify MCP client (ShopifyMCPClient): cached reads,       *)
(* mutations that invalidate a key prefix, and the paginated getAllOrders, *)
(* all running over one module-level PluginCache.                          *)
(*                                                                         *)
(* Strings that the code inspects by prefix (cache keys, regex patterns)   *)
(* are sequences of one-character strings.  Time is counted in units of    *)
(* five minutes.  The payload of a remote answer is the version of the     *)
(* remote data it was read from.                                           *)
(***************************************************************************)
EXTENDS Integers, Sequences, FiniteSets, TLC

\* ------------------------------------------------------------------ bounds
NumProcs == 2        \* calls that may be in flight at once
NumClients == 2      \* ShopifyMCPClient instances
MaxCalls == 3        \* client method calls started in one behaviour
MaxTime == 2         \* the clock runs from 0 to MaxTime
MaxPageTime == 1     \* the same, while get-all-orders is run
MaxVer == 1          \* successful remote mutations in one behaviour
MaxPagesArg == 3     \* largest --maxPages the caller passes
MaxInvocations == 2  \* getAllOrders invocations in one behaviour
MaxFairInvocations == 1  \* getAllOrders invocations in one fair behaviour
MaxToggleCalls == 5  \* client method calls while the cache is switched off and on
MaxKeyParams == 3    \* parameters in an object given to createCacheKey

Procs == 1..NumProcs
Clients == 1..NumClients

Undefined == "undefined"

\* ------------------------------------------------ TTL (units of 5 minutes)
TTL_FIVE_MINUTES == 1
TTL_FIFTEEN_MINUTES == 3
TTL_HOUR == 12

\* --------------------------------------------------------------- strings
StartsWith(text, prefix) ==
    /\ Len(text) >= Len(prefix)
    /\ SubSeq(text, 1, Len(prefix)) = prefix

NsOrder == <<"o", "r", "d", "e", "r">>
NsOrders == NsOrder \o <<"s">>
NsProduct == <<"p", "r", "o", "d", "u", "c", "t">>
NsProducts == NsProduct \o <<"s">>
NsCustomer == <<"c", "u", "s", "t", "o", "m", "e", "r">>
NsCustomers == NsCustomer \o <<"s">>
NsCustomerOrders == NsCustomer \o <<"_">> \o NsOrders

\* The patterns of the four mutations: /^products/, /^customer/, /^order/.
PatProducts == NsProducts
PatCustomer == NsCustomer
PatOrder == NsOrder

\* ------------------------------------------------------- createCacheKey
\* Parameter names in their serialization order.
ParamNames == <<"after", "id", "limit", "query", "reverse", "search", "sortKey", "status">>

\* params is the sequence of <<name, value>> pairs of the object literal, in
\* insertion order; a later pair of the same name overrides an earlier one.
RECURSIVE ParamValue(_, _)
ParamValue(params, name) ==
    IF params = <<>> THEN Undefined
    ELSE LET last == params[Len(params)]
         IN IF last[1] = name THEN last[2]
            ELSE ParamValue(SubSeq(params, 1, Len(params) - 1), name)

RECURSIVE SerializeFrom(_, _)
SerializeFrom(params, i) ==
    IF i > Len(ParamNames) THEN <<>>
    ELSE LET v == ParamValue(params, ParamNames[i])
         IN (IF v = Undefined THEN <<>> ELSE <<ParamNames[i], "=", v, "&">>)
            \o SerializeFrom(params, i + 1)

\* Mutant: the parameters are serialized as they come, in insertion order,
\* absent ones included.
RECURSIVE SerializeAsGiven(_)
SerializeAsGiven(params) ==
    IF params = <<>> THEN <<>>
    ELSE <<params[1][1], "=", params[1][2], "&">> \o SerializeAsGiven(Tail(params))

createCacheKey_asGiven(namespace, params) ==
    namespace \o <<":">> \o SerializeAsGiven(params)

createCacheKey(namespace, params) ==
    namespace \o <<":">> \o SerializeFrom(params, 1)

\* ------------------------------------------------------------------ state
VARIABLES
    entries,        \* PluginCache: key -> [value, expiresAt, storedAt]
    enabled,        \* PluginCache: the global enable flag
    stats,          \* PluginCache: [hits, misses, sets, invalidations]
    returned,       \* history: key -> [value, expiresAt] of the latest cached return
    now,            \* the clock
    remoteVer,      \* version of the data held by the remote store
    connected,      \* ShopifyMCPClient.connected
    cacheDisabled,  \* ShopifyMCPClient.cacheDisabled
    transports,     \* transports created by connect() since the last disconnect
    proc,           \* the calls in flight, one record per slot
    lastCall,       \* history: the call that returned or threw most recently
    calls,          \* client method calls started so far
    budget,         \* client method calls the behaviour may start in all
    keyArgs,        \* the arguments of createCacheKey that are being compared
    cacheKey        \* the keys createCacheKey made of them

vars == <<entries, enabled, stats, returned, now, remoteVer, connected,
          cacheDisabled, transports, proc, lastCall, calls, budget, keyArgs, cacheKey>>

cacheVars == <<entries, enabled, stats, returned>>
clientVars == <<connected, cacheDisabled, transports>>

NoResp == [kind |-> "none", body |-> [shape |-> "none"]]
\* A remote answer: isError with its text, or a body.
ErrorText == [shape |-> "errorText"]
ErrorResp == [kind |-> "error", body |-> ErrorText]
OkResp(body) == [kind |-> "ok", body |-> body]

NoRet == [kind |-> "none"]
Thrown == [kind |-> "throw"]
Value(v) == [kind |-> "value", v |-> v]

IdleProc ==
    [pc |-> "idle", client |-> 0, op |-> "none", mode |-> "none", key |-> <<>>, ttl |-> 0,
     resp |-> NoResp, ret |-> NoRet,
     allOrders |-> <<>>, cursor |-> Undefined, hasNextPage |-> TRUE,
     pageCount |-> 0, maxPages |-> 0, hist |-> <<>>,
     sentWhile |-> "none"]

\* A new call takes the lowest free slot.
Callable(p) ==
    /\ proc[p].pc = "idle"
    /\ \A q \in Procs : q < p => proc[q].pc # "idle"
    /\ calls < budget

\* A call ends: its slot is free again and its frame is kept as the latest call.
Finished(q, ret) == [q EXCEPT !.pc = "done", !.ret = ret]

NoCall == Finished(IdleProc, NoRet)

\* ------------------------------------------------------------ PluginCache
Size == Cardinality(DOMAIN entries)

Without(f, ks) == [k \in DOMAIN f \ ks |-> f[k]]

With(f, key, e) == [k \in DOMAIN f \cup {key} |-> IF k = key THEN e ELSE f[k]]

\* Mutant: an entry still counts as fresh at the instant of its expiresAt.
Fresh_throughExpiry(key) == key \in DOMAIN entries /\ now <= entries[key].expiresAt

Fresh(key) == key \in DOMAIN entries /\ now < entries[key].expiresAt

\* The synchronous head of getOrFetch: which of the three paths the call takes.
Lookup(key, bypassCache) ==
    IF bypassCache \/ ~enabled THEN "bypass"
    ELSE IF Fresh(key) THEN "hit"
    ELSE "miss"

\* set(key, value, ttl): suppressed while the store is disabled.
CacheSet(key, value, ttl) ==
    IF enabled
    THEN /\ entries' = With(entries, key,
                            [value |-> value, expiresAt |-> now + ttl, storedAt |-> now])
         /\ stats' = [stats EXCEPT !.sets = @ + 1]
         /\ returned' = With(returned, key, [value |-> value, expiresAt |-> now + ttl])
    ELSE UNCHANGED <<entries, stats, returned>>

Matching(pattern) == {k \in DOMAIN entries : StartsWith(k, pattern)}

invalidatePattern(pattern) ==
    /\ entries' = Without(entries, Matching(pattern))
    /\ returned' = Without(returned, Matching(pattern))
    /\ stats' = [stats EXCEPT !.invalidations = @ + Cardinality(Matching(pattern))]
    /\ UNCHANGED enabled

\* invalidate(key): removes the entry if there is one.
invalidate(key) ==
    /\ entries' = Without(entries, {key})
    /\ returned' = Without(returned, {key})
    /\ stats' = [stats EXCEPT !.invalidations =
                                IF key \in DOMAIN entries THEN @ + 1 ELSE @]
    /\ UNCHANGED enabled

\* clear(): removes every entry and nothing else.
clear ==
    /\ entries' = <<>>
    /\ returned' = <<>>
    /\ UNCHANGED <<enabled, stats>>

\* --------------------------------------------------- connection, callTool
\* connect(): nothing when connected; otherwise a transport and a client are
\* created and the call waits for client.connect.
connect(c) ==
    /\ transports' = IF connected[c] THEN transports
                     ELSE [transports EXCEPT ![c] = @ + 1]
    /\ UNCHANGED <<connected, cacheDisabled>>

\* callTool up to its first suspension: connect(), then the request goes out.
\* q is the calling method's frame.
callTool(p, c, q) ==
    /\ connect(c)
    /\ proc' = [proc EXCEPT ![p] =
                  [q EXCEPT !.pc = IF connected[c] THEN "sent" ELSE "connecting",
                            !.client = c]]

\* Mutant: isError is not looked at; the error text is returned as the result.
callToolResult_noThrow(resp) == Value(resp.body)

\* Mutant: the answer's text is not parsed; every answer without isError
\* gives the same value.
callToolResult_sameValue(resp) ==
    IF resp.kind = "error" THEN Thrown ELSE Value([shape |-> "data", ver |-> 0])

\* callTool after the answer arrived: it throws on isError and returns the
\* parsed body otherwise.
callToolResult(resp) ==
    IF resp.kind = "error" THEN Thrown ELSE Value(resp.body)

\* client.connect resolved: connected = true, and the request is sent.
Connected(p) ==
    /\ proc[p].pc = "connecting"
    /\ connected' = [connected EXCEPT ![proc[p].client] = TRUE]
    /\ proc' = [proc EXCEPT ![p].pc = "sent"]
    /\ UNCHANGED <<cacheVars, now, remoteVer, cacheDisabled, transports, lastCall, calls, budget, keyArgs, cacheKey>>

\* ------------------------------------------------------------- the remote
IsMutation(op) ==
    op \in {"createProduct", "updateCustomer", "updateOrder", "updateFulfillmentTracking"}

Data(ver) == [shape |-> "data", ver |-> ver]

\* The remote answers a read with its current data, or with isError.
ServeRead(p) ==
    /\ proc[p].pc = "sent"
    /\ ~IsMutation(proc[p].op)
    /\ proc[p].op # "getAllOrders"
    /\ \E r \in {ErrorResp, OkResp(Data(remoteVer))} :
          proc' = [proc EXCEPT ![p].pc = "served", ![p].resp = r]
    /\ UNCHANGED <<cacheVars, clientVars, now, remoteVer, lastCall, calls, budget, keyArgs, cacheKey>>

\* The remote applies a mutation, or refuses it with isError.
ServeMutation(p) ==
    /\ proc[p].pc = "sent"
    /\ IsMutation(proc[p].op)
    /\ \/ /\ remoteVer < MaxVer
          /\ remoteVer' = remoteVer + 1
          /\ proc' = [proc EXCEPT ![p].pc = "served",
                                  ![p].resp = OkResp(Data(remoteVer + 1))]
       \/ /\ remoteVer' = remoteVer
          /\ proc' = [proc EXCEPT ![p].pc = "served", ![p].resp = ErrorResp]
    /\ UNCHANGED <<cacheVars, clientVars, now, lastCall, calls, budget, keyArgs, cacheKey>>

\* ------------------------------------------------------------ getOrFetch
\* A hit: the stored value is returned, nothing is fetched, nothing is written.
CacheHit(key) ==
    /\ stats' = [stats EXCEPT !.hits = @ + 1]
    /\ returned' = With(returned, key, [value |-> entries[key].value,
                                        expiresAt |-> entries[key].expiresAt])
    /\ UNCHANGED <<entries, enabled>>

\* A miss: the expired entry, if any, is dropped and the miss is counted.
CacheMiss(key) ==
    /\ entries' = Without(entries, {key})
    /\ stats' = [stats EXCEPT !.misses = @ + 1]
    /\ UNCHANGED <<returned, enabled>>

\* The call of cache.getOrFetch(key, fetchFn, {ttl, bypassCache}) up to its
\* first suspension.  A hit returns at once; a miss and a bypass run fetchFn,
\* which is a callTool.
getOrFetch(p, c, op, key, ttl, bypassCache) ==
    /\ Callable(p)
    /\ calls' = calls + 1
    /\ UNCHANGED <<budget, keyArgs, cacheKey>>
    /\ UNCHANGED <<now, remoteVer>>
    /\ LET mode == Lookup(key, bypassCache)
           q == [IdleProc EXCEPT !.op = op, !.mode = mode, !.key = key, !.ttl = ttl]
       IN CASE mode = "hit" ->
                 /\ CacheHit(key)
                 /\ lastCall' = Finished(q, Value(entries[key].value))
                 /\ UNCHANGED <<proc, clientVars>>
            [] mode = "miss" ->
                 /\ CacheMiss(key)
                 /\ callTool(p, c, q)
                 /\ UNCHANGED lastCall
            [] mode = "bypass" ->
                 /\ callTool(p, c, q)
                 /\ UNCHANGED <<cacheVars, lastCall>>

\* fetchFn settled.  A failure propagates and nothing is stored; a value
\* fetched on a miss is stored with expiresAt = now + ttl and returned.
FetchSettled(p) ==
    /\ proc[p].pc = "served"
    /\ ~IsMutation(proc[p].op)
    /\ proc[p].op # "getAllOrders"
    /\ proc' = [proc EXCEPT ![p] = IdleProc]
    /\ UNCHANGED <<enabled, clientVars, now, remoteVer, calls, budget, keyArgs, cacheKey>>
    /\ LET fetched == callToolResult(proc[p].resp)
       IN /\ lastCall' = Finished(proc[p], fetched)
          /\ IF fetched.kind = "value" /\ proc[p].mode = "miss"
             THEN CacheSet(proc[p].key, fetched.v, proc[p].ttl)
             ELSE UNCHANGED <<entries, stats, returned>>

\* ------------------------------------------------------- client: reads
\* Arguments the callers pass.
Ids == {"7"}
Limits == {"50"}
Searches == {Undefined}

getProducts(p, c) ==
    \E search \in Searches, limit \in Limits :
       getOrFetch(p, c, "getProducts",
                  createCacheKey(NsProducts, <<<<"search", search>>, <<"limit", limit>>>>),
                  TTL_HOUR, cacheDisabled[c])

getProductById(p, c) ==
    \E productId \in Ids :
       getOrFetch(p, c, "getProductById",
                  createCacheKey(NsProduct, <<<<"id", productId>>>>),
                  TTL_HOUR, cacheDisabled[c])

getCustomers(p, c) ==
    \E search \in Searches, limit \in Limits :
       getOrFetch(p, c, "getCustomers",
                  createCacheKey(NsCustomers, <<<<"search", search>>, <<"limit", limit>>>>),
                  TTL_FIFTEEN_MINUTES, cacheDisabled[c])

\* Mutant: the read asks for a bypass once the entry stored for its key has expired.
getCustomerOrders_bypassWhenExpired(p, c) ==
    \E customerId \in Ids, limit \in Limits :
       LET key == createCacheKey(NsCustomerOrders,
                                 <<<<"id", customerId>>, <<"limit", limit>>>>)
       IN getOrFetch(p, c, "getCustomerOrders", key, TTL_FIVE_MINUTES,
                     cacheDisabled[c] \/ (key \in DOMAIN entries /\ ~Fresh(key)))

getCustomerOrders(p, c) ==
    \E customerId \in Ids, limit \in Limits :
       getOrFetch(p, c, "getCustomerOrders",
                  createCacheKey(NsCustomerOrders,
                                 <<<<"id", customerId>>, <<"limit", limit>>>>),
                  TTL_FIVE_MINUTES, cacheDisabled[c])

\* The key of getOrders(options); options is [status, limit, sortKey, reverse, after, query].
OrdersKey(o) ==
    createCacheKey(NsOrders,
                   <<<<"status", o.status>>, <<"limit", o.limit>>,
                     <<"sortKey", o.sortKey>>, <<"reverse", o.reverse>>,
                     <<"after", o.after>>, <<"query", o.query>>>>)

\* The options the get-orders command passes.
CliOrdersOptions ==
    [status : {Undefined}, limit : Limits, sortKey : {Undefined},
     reverse : {Undefined}, after : {Undefined}, query : {Undefined}]

getOrders(p, c) ==
    \E o \in CliOrdersOptions :
       getOrFetch(p, c, "getOrders", OrdersKey(o), TTL_FIVE_MINUTES, cacheDisabled[c])

\* Mutant: the read asks for a bypass whenever a fresh entry is stored for its key.
getOrderById_bypassWhenStored(p, c) ==
    \E orderId \in Ids :
       LET key == createCacheKey(NsOrder, <<<<"id", orderId>>>>)
       IN getOrFetch(p, c, "getOrderById", key, TTL_FIVE_MINUTES,
                     cacheDisabled[c] \/ Fresh(key))

getOrderById(p, c) ==
    \E orderId \in Ids :
       getOrFetch(p, c, "getOrderById",
                  createCacheKey(NsOrder, <<<<"id", orderId>>>>),
                  TTL_FIVE_MINUTES, cacheDisabled[c])

\* --------------------------------------------------- client: mutations
\* Mutant: the order mutations invalidate /^orders/.
PatternOf_orders(op) ==
    CASE op = "createProduct" -> PatProducts
      [] op = "updateCustomer" -> PatCustomer
      [] op = "updateOrder" -> NsOrders
      [] op = "updateFulfillmentTracking" -> NsOrders

\* The pattern each mutation passes to cache.invalidatePattern.
PatternOf(op) ==
    CASE op = "createProduct" -> PatProducts
      [] op = "updateCustomer" -> PatCustomer
      [] op = "updateOrder" -> PatOrder
      [] op = "updateFulfillmentTracking" -> PatOrder

\* A mutation up to its suspension: const result = await this.callTool(...).
Mutate(p, c, op) ==
    /\ Callable(p)
    /\ calls' = calls + 1
    /\ UNCHANGED <<budget, keyArgs, cacheKey>>
    /\ callTool(p, c, [IdleProc EXCEPT !.op = op])
    /\ UNCHANGED <<cacheVars, now, remoteVer, lastCall>>

createProduct(p, c) == Mutate(p, c, "createProduct")
updateCustomer(p, c) == Mutate(p, c, "updateCustomer")
updateFulfillmentTracking(p, c) == Mutate(p, c, "updateFulfillmentTracking")
updateOrder(p, c) == Mutate(p, c, "updateOrder")

\* Mutant: the pattern is invalidated whether or not callTool threw.
MutationSettled_alwaysInvalidates(p) ==
    /\ proc[p].pc = "served"
    /\ IsMutation(proc[p].op)
    /\ proc' = [proc EXCEPT ![p] = IdleProc]
    /\ UNCHANGED <<clientVars, now, remoteVer, calls, budget, keyArgs, cacheKey>>
    /\ lastCall' = Finished(proc[p], callToolResult(proc[p].resp))
    /\ invalidatePattern(PatternOf(proc[p].op))

\* The mutation resumes: callTool threw (isError), or it returned and the
\* pattern is invalidated before the result is returned.
MutationSettled(p) ==
    /\ proc[p].pc = "served"
    /\ IsMutation(proc[p].op)
    /\ proc' = [proc EXCEPT ![p] = IdleProc]
    /\ UNCHANGED <<clientVars, now, remoteVer, calls, budget, keyArgs, cacheKey>>
    /\ LET result == callToolResult(proc[p].resp)
       IN /\ lastCall' = Finished(proc[p], result)
          /\ IF result.kind = "throw"
             THEN UNCHANGED cacheVars
             ELSE invalidatePattern(PatternOf(proc[p].op))

\* ------------------------------------------------------- getAllOrders
Cursors == {"c1", "c2"}

\* One order of the page that was requested with the cursor `after`.
Item(after) == [shape |-> "order", after |-> after]

PageBody(shape, orders, hasNextPage, endCursor) ==
    [shape |-> shape, orders |-> orders, hasNextPage |-> hasNextPage,
     endCursor |-> endCursor]

\* What get-orders may send back for the page after `after`: a bare array, an
\* object with orders and any pageInfo (absent fields are "undefined"), null,
\* a scalar, an object without orders, an object whose orders cannot be spread.
PageBodies(after) ==
    {PageBody("array", <<Item(after)>>, "undefined", Undefined)}
    \cup {PageBody("object", <<Item(after)>>, h, e) :
             h \in {"true", "false", "undefined"}, e \in Cursors \cup {Undefined}}
    \cup {PageBody(sh, <<>>, "undefined", Undefined) :
             sh \in {"null", "scalar", "noOrders", "badOrders"}}

FailedPage == PageBody("error", <<>>, "undefined", Undefined)

\* Mutant: the cursor is not passed on; every page is asked for from the start.
PageOptions_noCursor(cursor) ==
    [status |-> Undefined, limit |-> "250", sortKey |-> "CREATED_AT",
     reverse |-> "true", after |-> Undefined, query |-> Undefined]

\* The options getAllOrders passes to getOrders for the page after `cursor`.
PageOptions(cursor) ==
    [status |-> Undefined, limit |-> "250", sortKey |-> "CREATED_AT",
     reverse |-> "true", after |-> cursor, query |-> Undefined]

\* result.orders of null, and spreading orders that is no sequence, throw.
PageThrows(body) == body.shape \in {"null", "badOrders"}

\* Mutant: a page object always counts as having a next page.
HandlePage_keepsGoing(q, body, how) ==
    LET seen == Append(q.hist, [body |-> body, how |-> how])
    IN CASE body.shape = "array" ->
              [q EXCEPT !.allOrders = @ \o body.orders, !.hasNextPage = FALSE,
                        !.pageCount = @ + 1, !.hist = seen]
         [] body.shape = "object" ->
              [q EXCEPT !.allOrders = @ \o body.orders,
                        !.hasNextPage = TRUE,
                        !.cursor = body.endCursor,
                        !.pageCount = @ + 1, !.hist = seen]
         [] OTHER ->
              [q EXCEPT !.allOrders = Append(@, body), !.hasNextPage = FALSE,
                        !.pageCount = @ + 1, !.hist = seen]

\* Mutant: a bare array does not end the loop.
HandlePage_arrayGoesOn(q, body, how) ==
    LET seen == Append(q.hist, [body |-> body, how |-> how])
    IN CASE body.shape = "array" ->
              [q EXCEPT !.allOrders = @ \o body.orders,
                        !.pageCount = @ + 1, !.hist = seen]
         [] body.shape = "object" ->
              [q EXCEPT !.allOrders = @ \o body.orders,
                        !.hasNextPage = (body.hasNextPage = "true"),
                        !.cursor = body.endCursor,
                        !.pageCount = @ + 1, !.hist = seen]
         [] OTHER ->
              [q EXCEPT !.allOrders = Append(@, body), !.hasNextPage = FALSE,
                        !.pageCount = @ + 1, !.hist = seen]

\* The loop body after the await: the three shapes, then pageCount++.
HandlePage(q, body, how) ==
    LET seen == Append(q.hist, [body |-> body, how |-> how])
    IN CASE body.shape = "array" ->
              [q EXCEPT !.allOrders = @ \o body.orders, !.hasNextPage = FALSE,
                        !.pageCount = @ + 1, !.hist = seen]
         [] body.shape = "object" ->
              [q EXCEPT !.allOrders = @ \o body.orders,
                        !.hasNextPage = (body.hasNextPage = "true"),
                        !.cursor = body.endCursor,
                        !.pageCount = @ + 1, !.hist = seen]
         [] OTHER ->
              [q EXCEPT !.allOrders = Append(@, body), !.hasNextPage = FALSE,
                        !.pageCount = @ + 1, !.hist = seen]

\* Mutant: hasMore tells whether the bound was reached.
Result_boundReached(q) ==
    [orders |-> q.allOrders, totalFetched |-> Len(q.allOrders),
     hasMore |-> q.pageCount >= q.maxPages]

Result(q) ==
    [orders |-> q.allOrders, totalFetched |-> Len(q.allOrders), hasMore |-> q.hasNextPage]

\* The page came back (from the cache or from the remote): it is handled and
\* the call is back at the head of the loop, or handling it threw.
PageArrived(p, q, body, how) ==
    IF PageThrows(body)
    THEN /\ proc' = [proc EXCEPT ![p] = IdleProc]
         /\ lastCall' = Finished([q EXCEPT !.hist = Append(@, [body |-> body, how |-> how])],
                                 Thrown)
    ELSE /\ proc' = [proc EXCEPT ![p] = [HandlePage(q, body, how) EXCEPT !.pc = "loop"]]
         /\ UNCHANGED lastCall

\* Mutant: while (hasNextPage && pageCount <= maxPages)
LoopCondition_inclusive(q) == q.hasNextPage /\ q.pageCount <= q.maxPages

\* Mutant: while (hasNextPage)
LoopCondition_noBound(q) == q.hasNextPage

\* while (hasNextPage && pageCount < maxPages)
LoopCondition(q) == q.hasNextPage /\ q.pageCount < q.maxPages

\* The head of the while loop with the frame q, up to the next suspension:
\* either the result is returned, or getOrders is called for the next page.
WhileLoop(p, c, q) ==
    IF LoopCondition(q)
    THEN LET key == OrdersKey(PageOptions(q.cursor))
             mode == Lookup(key, cacheDisabled[c])
             call == [q EXCEPT !.mode = mode, !.key = key, !.ttl = TTL_FIVE_MINUTES]
         IN CASE mode = "hit" ->
                   /\ CacheHit(key)
                   /\ PageArrived(p, call, entries[key].value, "hit")
                   /\ UNCHANGED clientVars
              [] mode = "miss" ->
                   /\ CacheMiss(key)
                   /\ callTool(p, c, call)
                   /\ UNCHANGED lastCall
              [] mode = "bypass" ->
                   /\ callTool(p, c, call)
                   /\ UNCHANGED <<cacheVars, lastCall>>
    ELSE /\ proc' = [proc EXCEPT ![p] = IdleProc]
         /\ lastCall' = Finished(q, Value(Result(q)))
         /\ UNCHANGED <<cacheVars, clientVars>>

\* maxPages = options?.maxPages ?? 10; options is a record of the fields passed.
DefaultMaxPages == 10

MaxPagesOf(options) ==
    IF "maxPages" \in DOMAIN options THEN options.maxPages ELSE DefaultMaxPages

getAllOrders(p, c, options) ==
    /\ Callable(p)
    /\ calls' = calls + 1
    /\ UNCHANGED <<budget, keyArgs, cacheKey>>
    /\ WhileLoop(p, c, [IdleProc EXCEPT !.client = c, !.op = "getAllOrders",
                                        !.maxPages = MaxPagesOf(options)])
    /\ UNCHANGED <<now, remoteVer>>

\* The loop goes round.
NextPage(p) ==
    /\ proc[p].pc = "loop"
    /\ WhileLoop(p, proc[p].client, proc[p])
    /\ UNCHANGED <<now, remoteVer, calls, budget, keyArgs, cacheKey>>

\* The remote answers get-orders with some page, or with isError.
ServePage(p) ==
    /\ proc[p].pc = "sent"
    /\ proc[p].op = "getAllOrders"
    /\ \E r \in {ErrorResp} \cup {OkResp(b) : b \in PageBodies(proc[p].cursor)} :
          proc' = [proc EXCEPT ![p].pc = "served", ![p].resp = r]
    /\ UNCHANGED <<cacheVars, clientVars, now, remoteVer, lastCall, calls, budget, keyArgs, cacheKey>>

\* Mutant: a failed page is asked for again instead of propagating.
PageSettled_retries(p) ==
    /\ proc[p].pc = "served"
    /\ proc[p].op = "getAllOrders"
    /\ UNCHANGED <<enabled, clientVars, now, remoteVer, calls, budget, keyArgs, cacheKey>>
    /\ LET fetched == callToolResult(proc[p].resp)
       IN IF fetched.kind = "throw"
          THEN /\ proc' = [proc EXCEPT ![p].pc = "sent", ![p].resp = NoResp]
               /\ UNCHANGED <<entries, stats, returned, lastCall>>
          ELSE /\ PageArrived(p, [proc[p] EXCEPT !.resp = NoResp], fetched.v, proc[p].mode)
               /\ IF proc[p].mode = "miss"
                  THEN CacheSet(proc[p].key, fetched.v, proc[p].ttl)
                  ELSE UNCHANGED <<entries, stats, returned>>

\* Mutant: when a page fails, what was accumulated so far is returned.
PageSettled_returnsPartial(p) ==
    /\ proc[p].pc = "served"
    /\ proc[p].op = "getAllOrders"
    /\ UNCHANGED <<enabled, clientVars, now, remoteVer, calls, budget, keyArgs, cacheKey>>
    /\ LET fetched == callToolResult(proc[p].resp)
       IN IF fetched.kind = "throw"
          THEN /\ proc' = [proc EXCEPT ![p] = IdleProc]
               /\ lastCall' = Finished([proc[p] EXCEPT !.hist =
                                          Append(@, [body |-> FailedPage, how |-> proc[p].mode])],
                                       Value(Result(proc[p])))
               /\ UNCHANGED <<entries, stats, returned>>
          ELSE /\ PageArrived(p, [proc[p] EXCEPT !.resp = NoResp], fetched.v, proc[p].mode)
               /\ IF proc[p].mode = "miss"
                  THEN CacheSet(proc[p].key, fetched.v, proc[p].ttl)
                  ELSE UNCHANGED <<entries, stats, returned>>

\* getOrders settled inside the loop: a failure propagates out of getAllOrders;
\* a page fetched on a miss is stored, and the page is handled.
PageSettled(p) ==
    /\ proc[p].pc = "served"
    /\ proc[p].op = "getAllOrders"
    /\ UNCHANGED <<enabled, clientVars, now, remoteVer, calls, budget, keyArgs, cacheKey>>
    /\ LET fetched == callToolResult(proc[p].resp)
       IN IF fetched.kind = "throw"
          THEN /\ proc' = [proc EXCEPT ![p] = IdleProc]
               /\ lastCall' = Finished([proc[p] EXCEPT !.hist =
                                          Append(@, [body |-> FailedPage, how |-> proc[p].mode])],
                                       Thrown)
               /\ UNCHANGED <<entries, stats, returned>>
          ELSE /\ PageArrived(p, [proc[p] EXCEPT !.resp = NoResp], fetched.v, proc[p].mode)
               /\ IF proc[p].mode = "miss"
                  THEN CacheSet(proc[p].key, fetched.v, proc[p].ttl)
                  ELSE UNCHANGED <<entries, stats, returned>>

\* ----------------------------------------------- client: cache control
\* A synchronous method of the client: it runs to its end in one step.
\* key is the key or the pattern the method was given, <<>> when it takes none.
SyncOn(op, key, ret) ==
    /\ calls < budget
    /\ calls' = calls + 1
    /\ UNCHANGED <<budget, keyArgs, cacheKey>>
    /\ lastCall' = Finished([IdleProc EXCEPT !.op = op, !.key = key], ret)
    /\ UNCHANGED <<now, remoteVer, connected, transports, proc>>

Sync(op, ret) == SyncOn(op, <<>>, ret)

\* Mutant: only the client's flag is set, cache.disable() is not called.
disableCache_flagOnly(c) ==
    /\ cacheDisabled' = [cacheDisabled EXCEPT ![c] = TRUE]
    /\ Sync("disableCache", NoRet)
    /\ UNCHANGED <<entries, enabled, stats, returned>>

disableCache(c) ==
    /\ cacheDisabled' = [cacheDisabled EXCEPT ![c] = TRUE]
    /\ enabled' = FALSE
    /\ Sync("disableCache", NoRet)
    /\ UNCHANGED <<entries, stats, returned>>

\* Mutant: enabling the cache starts it afresh: the entries are dropped.
enableCache_startsAfresh(c) ==
    /\ cacheDisabled' = [cacheDisabled EXCEPT ![c] = FALSE]
    /\ enabled' = TRUE
    /\ entries' = <<>>
    /\ Sync("enableCache", NoRet)
    /\ UNCHANGED <<stats, returned>>

enableCache(c) ==
    /\ cacheDisabled' = [cacheDisabled EXCEPT ![c] = FALSE]
    /\ enabled' = TRUE
    /\ Sync("enableCache", NoRet)
    /\ UNCHANGED <<entries, stats, returned>>

\* Mutant: the count is taken after the entries are gone.
clearCache_countsAfter(c) ==
    /\ clear
    /\ Sync("clearCache", Value(0))
    /\ UNCHANGED cacheDisabled

clearCache(c) ==
    /\ clear
    /\ Sync("clearCache", Value(Size))
    /\ UNCHANGED cacheDisabled

\* Mutant: the method reports a removal whether or not there was an entry.
invalidateCacheKey_alwaysTrue(c, key) ==
    /\ invalidate(key)
    /\ SyncOn("invalidateCacheKey", key, Value(TRUE))
    /\ UNCHANGED cacheDisabled

invalidateCacheKey(c, key) ==
    /\ invalidate(key)
    /\ SyncOn("invalidateCacheKey", key, Value(key \in DOMAIN entries))
    /\ UNCHANGED cacheDisabled

\* Mutant: taking the snapshot starts the counters again from zero.
getCacheStats_resets(c) ==
    /\ Sync("getCacheStats", Value([stats |-> stats, size |-> Size]))
    /\ stats' = [hits |-> 0, misses |-> 0, sets |-> 0, invalidations |-> 0]
    /\ UNCHANGED <<entries, enabled, returned, cacheDisabled>>

getCacheStats(c) ==
    /\ Sync("getCacheStats", Value([stats |-> stats, size |-> Size]))
    /\ UNCHANGED <<cacheVars, cacheDisabled>>

\* ------------------------------------------------------------- the clock
Tick(limit) ==
    /\ now < limit
    /\ now' = now + 1
    /\ UNCHANGED <<cacheVars, remoteVer, clientVars, proc, lastCall, calls, budget, keyArgs, cacheKey>>

\* --------------------------------------------------------- specification
\* The state after the module is loaded and a client constructed; b is the
\* number of client method calls the behaviour may start.
Start(b, args) ==
    /\ entries = <<>>
    /\ enabled = TRUE
    /\ stats = [hits |-> 0, misses |-> 0, sets |-> 0, invalidations |-> 0]
    /\ returned = <<>>
    /\ now = 0
    /\ remoteVer = 0
    /\ connected = [c \in Clients |-> FALSE]
    /\ cacheDisabled = [c \in Clients |-> FALSE]
    /\ transports = [c \in Clients |-> 0]
    /\ proc = [p \in Procs |-> IdleProc]
    /\ lastCall = NoCall
    /\ calls = 0
    /\ budget = b
    /\ keyArgs = args
    /\ cacheKey = <<>>

\* No keys are compared unless said otherwise.
NoKeyArgs == [namespace |-> <<>>, first |-> <<>>, second |-> <<>>]

Init == Start(MaxCalls, NoKeyArgs)

\* The command-line program constructs one client.
CliClient == 1

Next ==
    \/ \E p \in Procs :
          \/ getProducts(p, CliClient)
          \/ getProductById(p, CliClient)
          \/ createProduct(p, CliClient)
          \/ getCustomers(p, CliClient)
          \/ updateCustomer(p, CliClient)
          \/ getCustomerOrders(p, CliClient)
          \/ getOrders(p, CliClient)
          \/ getOrderById(p, CliClient)
          \/ updateFulfillmentTracking(p, CliClient)
          \/ updateOrder(p, CliClient)
          \/ Connected(p)
          \/ ServeRead(p)
          \/ ServeMutation(p)
          \/ FetchSettled(p)
          \/ MutationSettled(p)
    \/ disableCache(CliClient)
    \/ enableCache(CliClient)
    \/ clearCache(CliClient)
    \/ \E key \in DOMAIN entries : invalidateCacheKey(CliClient, key)
    \/ getCacheStats(CliClient)
    \/ Tick(MaxTime)

Spec == Init /\ [][Next]_vars

\* The get-all-orders command, run up to MaxInvocations times over one cache.
PageProc == 1

NextPageSpec ==
    \/ \E maxPages \in 1..MaxPagesArg :
          /\ calls < MaxInvocations
          /\ getAllOrders(PageProc, CliClient, [maxPages |-> maxPages])
    \/ NextPage(PageProc)
    \/ Connected(PageProc)
    \/ ServePage(PageProc)
    \/ PageSettled(PageProc)
    \/ Tick(MaxPageTime)

SpecPage == Init /\ [][NextPageSpec]_vars

\* One getAllOrders call from the command line, run to its end: each page
\* fetch returns or fails, and the event loop resumes what is ready.
NextPageFair ==
    \/ \E maxPages \in 1..MaxPagesArg :
          /\ calls < MaxFairInvocations
          /\ getAllOrders(PageProc, CliClient, [maxPages |-> maxPages])
    \/ NextPage(PageProc)
    \/ Connected(PageProc)
    \/ ServePage(PageProc)
    \/ PageSettled(PageProc)
    \/ Tick(MaxPageTime)

SpecPageFair ==
    /\ Init
    /\ [][NextPageFair]_vars
    /\ WF_vars(NextPage(PageProc))
    /\ WF_vars(Connected(PageProc))
    /\ WF_vars(ServePage(PageProc))
    /\ WF_vars(PageSettled(PageProc))

\* getAllOrders called as a method of the class, where maxPages is any number
\* the caller likes: 0 is among them.
NextPageLib ==
    \/ \E maxPages \in 0..MaxPagesArg :
          /\ calls < MaxInvocations
          /\ getAllOrders(PageProc, CliClient, [maxPages |-> maxPages])
    \/ NextPage(PageProc)
    \/ Connected(PageProc)
    \/ ServePage(PageProc)
    \/ PageSettled(PageProc)
    \/ Tick(MaxPageTime)

SpecLib == Init /\ [][NextPageLib]_vars

\* Reads of one order while the cache is switched off and on again.
NextToggle ==
    \/ \E p \in Procs :
          \/ getOrderById(p, CliClient)
          \/ Connected(p)
          \/ ServeRead(p)
          \/ FetchSettled(p)
    \/ disableCache(CliClient)
    \/ enableCache(CliClient)
    \/ Tick(MaxTime)

SpecToggle == Start(MaxToggleCalls, NoKeyArgs) /\ [][NextToggle]_vars

\* The data behind the remote API changes, by whoever else uses the store.
RemoteChanges ==
    /\ remoteVer < MaxVer
    /\ remoteVer' = remoteVer + 1
    /\ UNCHANGED <<cacheVars, clientVars, now, proc, lastCall, calls, budget, keyArgs, cacheKey>>

\* Reads of one order that may overlap, while the remote data changes.
NextRace ==
    \/ \E p \in Procs :
          \/ getOrderById(p, CliClient)
          \/ Connected(p)
          \/ ServeRead(p)
          \/ FetchSettled(p)
    \/ RemoteChanges
    \/ Tick(MaxTime)

SpecRace == Init /\ [][NextRace]_vars

\* createCacheKey applied to two parameter mappings under one namespace.
KeyParamNames == {"after", "limit", "status"}
KeyParamValues == {Undefined, "1", "2"}

\* The object literals with at most MaxKeyParams of these parameters, as
\* sequences of <<name, value>> in insertion order.
KeyParams ==
    {m \in UNION {[1..n -> KeyParamNames \X KeyParamValues] : n \in 0..MaxKeyParams} :
        \A i, j \in DOMAIN m : i # j => m[i][1] # m[j][1]}

KeyInputs ==
    [namespace : {NsOrders, NsProduct}, first : KeyParams, second : KeyParams]

MakeKeys ==
    /\ cacheKey = <<>>
    /\ keyArgs # NoKeyArgs
    /\ cacheKey' = <<createCacheKey(keyArgs.namespace, keyArgs.first),
                     createCacheKey(keyArgs.namespace, keyArgs.second)>>
    /\ UNCHANGED <<cacheVars, clientVars, now, remoteVer, proc, lastCall, calls,
                   budget, keyArgs>>

SpecKey == (\E args \in KeyInputs : Start(0, args)) /\ [][MakeKeys]_vars

\* The cache driven through its own interface: getOrFetch with any ttl and
\* bypassCache, invalidate and invalidatePattern with keys and patterns that
\* may match nothing, next to the client's clear, enable, disable, getStats.
MaxCacheCalls == 3

CacheKeys ==
    {createCacheKey(NsOrder, <<<<"id", "7">>>>),
     createCacheKey(NsOrders, <<<<"limit", "50">>>>)}

\* /^order/ matches both keys, /^orders/ one of them, /^customer/ none.
CachePatterns == {PatOrder, NsOrders, PatCustomer}

\* Times to live, in units of five minutes: negative, zero, positive.
CacheTTLs == {-1, 0, TTL_FIVE_MINUTES}

CacheGetOrFetch(p, key, ttl, bypassCache) ==
    getOrFetch(p, CliClient, "getOrFetch", key, ttl, bypassCache)

\* invalidatePattern(pattern) -> count
CacheInvalidatePattern(pattern) ==
    /\ invalidatePattern(pattern)
    /\ SyncOn("invalidatePattern", pattern, Value(Cardinality(Matching(pattern))))
    /\ UNCHANGED cacheDisabled

NextCache ==
    \/ \E p \in Procs :
          \/ \E key \in CacheKeys, ttl \in CacheTTLs, bypassCache \in BOOLEAN :
                CacheGetOrFetch(p, key, ttl, bypassCache)
          \/ Connected(p)
          \/ ServeRead(p)
          \/ FetchSettled(p)
    \/ \E key \in CacheKeys : invalidateCacheKey(CliClient, key)
    \/ \E pattern \in CachePatterns : CacheInvalidatePattern(pattern)
    \/ clearCache(CliClient)
    \/ enableCache(CliClient)
    \/ disableCache(CliClient)
    \/ getCacheStats(CliClient)
    \/ Tick(MaxPageTime)

SpecCache == Start(MaxCacheCalls, NoKeyArgs) /\ [][NextCache]_vars

\* The reads that return orders, overlapping with the mutations of orders:
\* the only changes of the remote data are the ones these mutations make.
NextStale ==
    \E p \in Procs :
       \/ getOrderById(p, CliClient)
       \/ getOrders(p, CliClient)
       \/ getCustomerOrders(p, CliClient)
       \/ updateOrder(p, CliClient)
       \/ updateFulfillmentTracking(p, CliClient)
       \/ Connected(p)
       \/ ServeRead(p)
       \/ ServeMutation(p)
       \/ FetchSettled(p)
       \/ MutationSettled(p)

SpecStale == Init /\ [][NextStale]_vars

\* ------------------------------------------- the connection, step by step
\* connect, disconnect, callTool and listTools called directly, with every
\* await as a suspension: between the return of connect() and the request,
\* and between client.close() and connected = false, other calls may run.
\* sentWhile keeps what this.connected was when the request went out.
MaxConnCalls == 4

ToolOps == {"callTool", "listTools"}

\* callTool(name, args) and listTools(): connect() runs up to its first
\* suspension; the caller waits for it also when it returned at once.
ToolCall(p, c, op) ==
    /\ op \in ToolOps
    /\ Callable(p)
    /\ calls' = calls + 1
    /\ connect(c)
    /\ proc' = [proc EXCEPT ![p] =
                  [IdleProc EXCEPT !.client = c, !.op = op,
                                   !.pc = IF connected[c] THEN "connectReturned"
                                          ELSE "connecting"]]
    /\ UNCHANGED <<cacheVars, now, remoteVer, lastCall, budget, keyArgs, cacheKey>>

listTools(p, c) == ToolCall(p, c, "listTools")

callToolCall(p, c) == ToolCall(p, c, "callTool")

\* connect() called by the user of the class.
connectCall(p, c) ==
    /\ Callable(p)
    /\ calls' = calls + 1
    /\ connect(c)
    /\ IF connected[c]
       THEN /\ lastCall' = Finished([IdleProc EXCEPT !.client = c, !.op = "connect"], NoRet)
            /\ UNCHANGED proc
       ELSE /\ proc' = [proc EXCEPT ![p] =
                          [IdleProc EXCEPT !.client = c, !.op = "connect",
                                           !.pc = "connecting"]]
            /\ UNCHANGED lastCall
    /\ UNCHANGED <<cacheVars, now, remoteVer, budget, keyArgs, cacheKey>>

\* client.connect resolved: this.connected = true and connect() returns, to
\* its caller or to the callTool / listTools that waits for it.
ClientConnected(p) ==
    /\ proc[p].pc = "connecting"
    /\ connected' = [connected EXCEPT ![proc[p].client] = TRUE]
    /\ IF proc[p].op = "connect"
       THEN /\ proc' = [proc EXCEPT ![p] = IdleProc]
            /\ lastCall' = Finished(proc[p], NoRet)
       ELSE /\ proc' = [proc EXCEPT ![p].pc = "connectReturned"]
            /\ UNCHANGED lastCall
    /\ UNCHANGED <<cacheVars, now, remoteVer, cacheDisabled, transports, calls, budget,
                   keyArgs, cacheKey>>

\* callTool / listTools resumes after await this.connect(): the request goes
\* out on this.client.
SendRequest(p) ==
    /\ proc[p].pc = "connectReturned"
    /\ proc' = [proc EXCEPT ![p].pc = "sent",
                            ![p].sentWhile = IF connected[proc[p].client]
                                             THEN "connected" ELSE "unconnected"]
    /\ UNCHANGED <<cacheVars, clientVars, now, remoteVer, lastCall, calls, budget,
                   keyArgs, cacheKey>>

\* disconnect(): nothing unless connected; otherwise it waits for client.close().
disconnect(p, c) ==
    /\ Callable(p)
    /\ calls' = calls + 1
    /\ IF connected[c]
       THEN /\ proc' = [proc EXCEPT ![p] =
                          [IdleProc EXCEPT !.client = c, !.op = "disconnect",
                                           !.pc = "closing"]]
            /\ UNCHANGED lastCall
       ELSE /\ lastCall' = Finished([IdleProc EXCEPT !.client = c, !.op = "disconnect"], NoRet)
            /\ UNCHANGED proc
    /\ UNCHANGED <<cacheVars, clientVars, now, remoteVer, budget, keyArgs, cacheKey>>

\* client.close() resolved: this.connected = false.  The transports created
\* from here on are counted anew.
Closed(p) ==
    /\ proc[p].pc = "closing"
    /\ connected' = [connected EXCEPT ![proc[p].client] = FALSE]
    /\ transports' = [transports EXCEPT ![proc[p].client] = 0]
    /\ proc' = [proc EXCEPT ![p] = IdleProc]
    /\ lastCall' = Finished(proc[p], NoRet)
    /\ UNCHANGED <<cacheVars, now, remoteVer, cacheDisabled, calls, budget, keyArgs, cacheKey>>

\* The answer to a request arrives and the call returns or throws as in
\* ServeRead and FetchSettled.
NextConn ==
    \E p \in Procs :
       \/ callToolCall(p, CliClient)
       \/ listTools(p, CliClient)
       \/ connectCall(p, CliClient)
       \/ disconnect(p, CliClient)
       \/ ClientConnected(p)
       \/ SendRequest(p)
       \/ Closed(p)
       \/ ServeRead(p)
       \/ FetchSettled(p)

SpecConn == Start(MaxConnCalls, NoKeyArgs) /\ [][NextConn]_vars

\* Several ShopifyMCPClient instances in one process: each has its own
\* cacheDisabled, all use the one module-level cache.
NextClients ==
    \E c \in Clients :
       \/ disableCache(c)
       \/ enableCache(c)
       \/ \E p \in Procs :
             \/ getOrderById(p, c)
             \/ Connected(p)
             \/ ServeRead(p)
             \/ FetchSettled(p)

SpecClients == Init /\ [][NextClients]_vars

\* ================================================================ claims
ReadOps ==
    {"getProducts", "getProductById", "getCustomers", "getCustomerOrders",
     "getOrders", "getOrderById"}

\* This step is a call of getOrFetch(k, ...) by one of the cached reads: either
\* the call is now in flight, or it returned at once.
CallsGetOrFetch(k) ==
    /\ calls' = calls + 1
    /\ \/ \E p \in Procs : /\ proc[p].pc = "idle"
                           /\ proc'[p].pc # "idle"
                           /\ proc'[p].op \in ReadOps
                           /\ proc'[p].key = k
       \/ /\ proc' = proc
          /\ lastCall'.op \in ReadOps
          /\ lastCall'.key = k

\* The store is enabled and the client does not ask for a bypass.
NonBypassed == enabled /\ ~cacheDisabled[CliClient]

\* This step returns v from the store: nothing is fetched, nothing is written.
ReturnsCached(v) ==
    /\ proc' = proc
    /\ lastCall'.mode = "hit"
    /\ lastCall'.ret = Value(v)
    /\ entries' = entries

\* This step sends the fetch of key k to the remote, on the given path.
InvokesFetch(k, mode) ==
    \E p \in Procs : /\ proc[p].pc = "idle"
                     /\ proc'[p].pc \in {"connecting", "sent"}
                     /\ proc'[p].key = k
                     /\ proc'[p].mode = mode

\* This step is the settling of the read that process p has in flight.
ReadSettles(p) ==
    /\ proc[p].pc = "served"
    /\ proc[p].op \in ReadOps
    /\ proc'[p] # proc[p]

\* This step is done by the mutation that process p has in flight.
MutationSteps(p) == IsMutation(proc[p].op) /\ proc'[p] # proc[p]

\* C1 (read-through): once a cached read of key k has returned v, every read
\* of k called on the enabled store without bypass before that entry's
\* expiresAt, with no invalidate, invalidatePattern or clear in between,
\* returns v at once, sends nothing to the remote and leaves the entries as
\* they are.  (returned[k] is the latest such return; the three removals
\* forget it.)
C1_ReadThrough ==
    [][\A k \in DOMAIN returned :
          (CallsGetOrFetch(k) /\ NonBypassed /\ now < returned[k].expiresAt)
             => ReturnsCached(returned[k].value)]_vars

\* A hit has returned a value that the remote no longer holds.
C1_Witness ==
    /\ lastCall.op \in ReadOps
    /\ lastCall.mode = "hit"
    /\ lastCall.ret.kind = "value"
    /\ lastCall.ret.v.ver # remoteVer
    /\ stats.hits > 0

\* C2 (mutation, then invalidation): a mutation changes no entry and counts
\* no invalidation when it is called, while it connects and while the remote
\* works on it; when the remote call failed it throws and the entries stay
\* exactly as they were; only the step in which callTool has returned
\* invalidates, and it removes exactly the keys that match the pattern.
C2_InvalidateAfterSuccess ==
    [][\A p \in Procs :
          /\ (proc[p].pc = "idle" /\ IsMutation(proc'[p].op))
                => (entries' = entries /\ stats' = stats)
          /\ MutationSteps(p) =>
                IF proc[p].pc = "served" /\ proc[p].resp.kind = "ok"
                THEN /\ entries' = Without(entries, Matching(PatternOf(proc[p].op)))
                     /\ lastCall' = Finished(proc[p], Value(proc[p].resp.body))
                ELSE /\ entries' = entries
                     /\ stats' = stats
                     /\ proc[p].pc = "served" => lastCall' = Finished(proc[p], Thrown)]_vars

\* A mutation has failed and the entry it would have invalidated is still there.
C2_Witness ==
    /\ IsMutation(lastCall.op)
    /\ lastCall.ret = Thrown
    /\ Matching(PatternOf(lastCall.op)) # {}

\* C3 (failures are not cached): when the remote answers a read with isError,
\* the read throws, the entries are what they were and sets is unchanged.
C3_FailedFetchNotCached ==
    [][\A p \in Procs :
          (ReadSettles(p) /\ proc[p].resp.kind = "error")
             => /\ lastCall' = Finished(proc[p], Thrown)
                /\ entries' = entries
                /\ stats'.sets = stats.sets]_vars

\* A miss has failed: no entry for its key, and nothing was ever set.
C3_Witness ==
    /\ lastCall.op \in ReadOps
    /\ lastCall.mode = "miss"
    /\ lastCall.ret = Thrown
    /\ lastCall.key \notin DOMAIN entries
    /\ stats.misses > 0
    /\ stats.sets = 0

\* C4 (expiry): a read of k that is called, not bypassed, after the clock has
\* passed expiresAt of the entry for k sends its fetch to the remote as a miss;
\* and a miss that settles with a value on the enabled store leaves for its
\* key the entry [that value, expiresAt = now + ttl].
C4_Expiry ==
    [][/\ \A k \in DOMAIN entries :
             (CallsGetOrFetch(k) /\ NonBypassed /\ now > entries[k].expiresAt)
                => InvokesFetch(k, "miss")
       /\ \A p \in Procs :
             (ReadSettles(p) /\ proc[p].mode = "miss" /\ proc[p].resp.kind = "ok" /\ enabled)
                => /\ proc[p].key \in DOMAIN entries'
                   /\ entries'[proc[p].key] =
                         [value |-> proc[p].resp.body, expiresAt |-> now + proc[p].ttl,
                          storedAt |-> now]
                   /\ lastCall' = Finished(proc[p], Value(proc[p].resp.body))]_vars

\* A read whose key had an entry that the clock has passed was fetched again
\* and has been stored with the new expiry.
C4_Witness ==
    /\ lastCall.op \in ReadOps
    /\ lastCall.mode = "miss"
    /\ lastCall.ret.kind = "value"
    /\ stats.sets = 2
    /\ stats.invalidations = 0
    /\ DOMAIN entries = {lastCall.key}
    /\ now > TTL_FIVE_MINUTES
    /\ entries[lastCall.key].expiresAt = now + lastCall.ttl
    /\ entries[lastCall.key].value = lastCall.ret.v

\* C5 (bypass): disableCache disables the store and removes nothing; a read
\* called while the store is disabled or with bypassCache set sends its fetch
\* to the remote and leaves the entries as they are, also when a fresh entry
\* for its key exists; when that fetch settles the read returns what was
\* fetched and the entries, hence the size, are again unchanged.
C5_Bypass ==
    [][/\ (calls' = calls + 1 /\ lastCall'.op = "disableCache")
             => (~enabled' /\ cacheDisabled'[CliClient] /\ entries' = entries)
       /\ \A p \in Procs :
             /\ (proc[p].pc = "idle" /\ proc'[p].op \in ReadOps
                   /\ (~enabled \/ cacheDisabled[CliClient]))
                   => /\ proc'[p].pc \in {"connecting", "sent"}
                      /\ proc'[p].mode = "bypass"
                      /\ entries' = entries
             /\ (ReadSettles(p) /\ proc[p].mode = "bypass")
                   => /\ entries' = entries
                      /\ lastCall' = Finished(proc[p], callToolResult(proc[p].resp))]_vars

\* While the store is disabled a read has fetched and returned the remote's
\* value although a fresh entry is stored for its key.
C5_Witness ==
    /\ ~enabled
    /\ lastCall.op \in ReadOps
    /\ lastCall.mode = "bypass"
    /\ lastCall.ret.kind = "value"
    /\ Fresh(lastCall.key)
    /\ stats.hits = 0

\* Keys that begin with "product" or with "customer".
Kept == {k \in DOMAIN entries : StartsWith(k, NsProduct) \/ StartsWith(k, NsCustomer)}

\* C6 (invalidation scope): when updateOrder or updateFulfillmentTracking has
\* its value, every key that begins with "order" is gone, every key that
\* begins with "product" or "customer" keeps its entry; and a read of a key
\* without entry, called not bypassed, sends its fetch to the remote.
C6_InvalidationScope ==
    [][/\ \A p \in Procs :
             (MutationSteps(p) /\ proc[p].pc = "served" /\ proc[p].resp.kind = "ok"
                /\ proc[p].op \in {"updateOrder", "updateFulfillmentTracking"})
                => /\ \A k \in DOMAIN entries : StartsWith(k, NsOrder) => k \notin DOMAIN entries'
                   /\ \A k \in Kept : k \in DOMAIN entries' /\ entries'[k] = entries[k]
       /\ \A k \in {createCacheKey(NsOrder, <<<<"id", id>>>>) : id \in Ids}
                   \cup {OrdersKey(o) : o \in CliOrdersOptions} :
             (CallsGetOrFetch(k) /\ NonBypassed /\ k \notin DOMAIN entries)
                => InvokesFetch(k, "miss")]_vars

\* An order mutation has removed an entry and a product or customer entry is
\* still stored.
C6_Witness ==
    /\ lastCall.op \in {"updateOrder", "updateFulfillmentTracking"}
    /\ lastCall.ret.kind = "value"
    /\ stats.invalidations > 0
    /\ stats.sets = 2
    /\ Kept # {}
    /\ Kept = DOMAIN entries

\* The getAllOrders frames: the one in flight, if any, and the latest finished.
PageFrames ==
    {f \in {proc[p] : p \in Procs} \cup {lastCall} : f.op = "getAllOrders"}

\* The orders of the pages a frame has been given, in order.
RECURSIVE ItemsOf(_)
ItemsOf(hist) ==
    IF hist = <<>> THEN <<>> ELSE hist[1].body.orders \o ItemsOf(Tail(hist))

ReportsTrue(page) == page.body.shape = "object" /\ page.body.hasNextPage = "true"
ReportsFalse(page) == page.body.shape = "object" /\ page.body.hasNextPage = "false"

\* C7 (pagination bound): a getAllOrders call with maxPages = N whose pages
\* have all reported hasNextPage = true is never given more than N pages, and
\* when it has ended it has returned, after exactly N pages, the orders of
\* those N pages in order with totalFetched their number and hasMore = true.
C7_PaginationBound ==
    \A f \in PageFrames :
       (\A i \in 1..Len(f.hist) : ReportsTrue(f.hist[i]))
          => /\ Len(f.hist) <= f.maxPages
             /\ f.pageCount = Len(f.hist)
             /\ f.pc = "done"
                   => /\ Len(f.hist) = f.maxPages
                      /\ f.ret = Value([orders |-> ItemsOf(f.hist),
                                        totalFetched |-> Len(ItemsOf(f.hist)),
                                        hasMore |-> TRUE])

\* With maxPages = 3 and three pages that all reported a next page, the call
\* has returned three orders and hasMore = true.
C7_Witness ==
    /\ lastCall.op = "getAllOrders"
    /\ lastCall.pc = "done"
    /\ lastCall.maxPages = 3
    /\ Len(lastCall.hist) = 3
    /\ \A i \in 1..3 : ReportsTrue(lastCall.hist[i])
    /\ lastCall.ret.kind = "value"
    /\ Len(lastCall.ret.v.orders) = 3
    /\ lastCall.ret.v.hasMore

\* C8 (pagination exhaustion): when page j is the first to report
\* hasNextPage = false, j is at most maxPages, no page is asked for after it
\* (it stays the last page, and the call is at the head of the loop or has
\* ended), and the call ends returning the orders of pages 1..j with
\* hasMore = false.
C8_PaginationExhaustion ==
    \A f \in PageFrames :
       \A j \in 1..Len(f.hist) :
          (ReportsFalse(f.hist[j]) /\ \A i \in 1..(j - 1) : ReportsTrue(f.hist[i]))
             => /\ j <= f.maxPages
                /\ j = Len(f.hist)
                /\ f.pageCount = j
                /\ f.pc \in {"loop", "done"}
                /\ f.pc = "done"
                      => f.ret = Value([orders |-> ItemsOf(f.hist),
                                        totalFetched |-> Len(ItemsOf(f.hist)),
                                        hasMore |-> FALSE])

\* With maxPages = 3 the second page reported hasNextPage = false and the
\* call has returned the two pages' orders with hasMore = false.
C8_Witness ==
    /\ lastCall.op = "getAllOrders"
    /\ lastCall.pc = "done"
    /\ lastCall.maxPages = 3
    /\ Len(lastCall.hist) = 2
    /\ ReportsTrue(lastCall.hist[1])
    /\ ReportsFalse(lastCall.hist[2])
    /\ lastCall.ret.kind = "value"
    /\ Len(lastCall.ret.v.orders) = 2
    /\ ~lastCall.ret.v.hasMore

\* C9 (page count bound): in every state of a getAllOrders call, whatever
\* maxPages the command line passed, pageCount is at most maxPages.
C9_PageCountBound ==
    \A f \in PageFrames : f.pageCount <= f.maxPages

\* A call is at the head of the loop with pageCount = maxPages and
\* hasNextPage still true.
C9_Witness ==
    /\ proc[PageProc].op = "getAllOrders"
    /\ proc[PageProc].pc = "loop"
    /\ proc[PageProc].hasNextPage
    /\ proc[PageProc].pageCount = proc[PageProc].maxPages
    /\ proc[PageProc].maxPages = MaxPagesArg

\* C10 (termination): when every page fetch returns or fails, a getAllOrders
\* call that is in flight eventually ends, whatever the pages say.
C10_Termination ==
    (proc[PageProc].op = "getAllOrders") ~> (proc[PageProc].pc = "idle")

\* A call with maxPages > 1 has returned after maxPages pages that all
\* reported a next page and gave no endCursor.
C10_Witness ==
    /\ lastCall.op = "getAllOrders"
    /\ lastCall.pc = "done"
    /\ lastCall.ret.kind = "value"
    /\ Len(lastCall.hist) = lastCall.maxPages
    /\ lastCall.maxPages > 1
    /\ \A i \in 1..Len(lastCall.hist) :
          ReportsTrue(lastCall.hist[i]) /\ lastCall.hist[i].body.endCursor = Undefined
    /\ proc[PageProc].pc = "idle"

\* The last page a frame was given.
LastPage(f) == f.hist[Len(f.hist)]

\* The getAllOrders calls that have ended.
EndedPageFrames == {f \in PageFrames : f.pc = "done"}

OddShapes == {"null", "scalar", "noOrders", "badOrders"}

\* C12 (shape tolerance), as claimed: a call whose last page had such a value
\* has not failed; it has returned with that value as the last unit and
\* hasMore = false.
C12_ShapeTolerance ==
    \A f \in EndedPageFrames :
       (Len(f.hist) >= 1 /\ LastPage(f).body.shape \in OddShapes)
          => /\ f.ret.kind = "value"
             /\ ~f.ret.v.hasMore
             /\ Len(f.ret.v.orders) >= 1
             /\ f.ret.v.orders[Len(f.ret.v.orders)] = LastPage(f).body

\* What the code does: a string, a number or an object without orders is
\* pushed as one unit and the call returns hasMore = false; null and an object
\* whose orders cannot be spread make the call throw.
C12_ShapeHandling ==
    \A f \in EndedPageFrames :
       (Len(f.hist) >= 1 /\ LastPage(f).body.shape \in OddShapes)
          => IF LastPage(f).body.shape \in {"scalar", "noOrders"}
             THEN /\ f.ret.kind = "value"
                  /\ ~f.ret.v.hasMore
                  /\ f.ret.v.orders[Len(f.ret.v.orders)] = LastPage(f).body
             ELSE f.ret = Thrown

\* A call has thrown on a page whose value was null.
C12_Witness ==
    /\ lastCall.op = "getAllOrders"
    /\ lastCall.pc = "done"
    /\ lastCall.ret = Thrown
    /\ Len(lastCall.hist) = 2
    /\ LastPage(lastCall).body.shape = "null"

\* C13 (all or nothing): when the fetch of page i of a getAllOrders call fails,
\* that step ends the call: it throws, its slot is free (no further page is
\* asked for), i is at most maxPages, and what it carries to the caller is the
\* failure alone, not the orders of pages 1..i-1.  No call goes on after a
\* failed page.
C13_AllOrNothing ==
    /\ [][\A p \in Procs :
             (/\ proc[p].op = "getAllOrders"
              /\ proc[p].pc = "served"
              /\ proc[p].resp.kind = "error"
              /\ proc'[p] # proc[p])
                => /\ proc'[p] = IdleProc
                   /\ lastCall'.op = "getAllOrders"
                   /\ lastCall'.pc = "done"
                   /\ lastCall'.ret = Thrown
                   /\ lastCall'.allOrders = proc[p].allOrders
                   /\ Len(lastCall'.hist) = Len(proc[p].hist) + 1
                   /\ Len(lastCall'.hist) <= lastCall'.maxPages
                   /\ LastPage(lastCall').body = FailedPage]_vars
    /\ [](\A f \in PageFrames :
             \A i \in 1..Len(f.hist) :
                f.hist[i].body = FailedPage
                   => i = Len(f.hist) /\ f.pc = "done" /\ f.ret = Thrown)

\* The second page of a call failed after the first had given an order: the
\* call has thrown.
C13_Witness ==
    /\ lastCall.op = "getAllOrders"
    /\ lastCall.pc = "done"
    /\ lastCall.ret = Thrown
    /\ Len(lastCall.hist) = 2
    /\ LastPage(lastCall).body = FailedPage
    /\ Len(lastCall.allOrders) = 1

\* What each page a frame was given has added to allOrders, in order.
RECURSIVE FetchedItems(_)
FetchedItems(hist) ==
    IF hist = <<>> THEN <<>>
    ELSE (IF hist[1].body.shape \in {"array", "object"}
          THEN hist[1].body.orders ELSE <<hist[1].body>>)
         \o FetchedItems(Tail(hist))

\* The cursor a frame passes when it asks for the page after those in hist.
CursorAfter(hist) ==
    IF hist = <<>> THEN Undefined
    ELSE IF hist[Len(hist)].body.shape = "object" THEN hist[Len(hist)].body.endCursor
    ELSE Undefined

\* This step is a call of getAllOrders.
CallsGetAllOrders ==
    /\ calls' = calls + 1
    /\ \/ proc[PageProc].pc = "idle" /\ proc'[PageProc].op = "getAllOrders"
       \/ proc' = proc /\ lastCall' # lastCall /\ lastCall'.op = "getAllOrders"

\* After this step the first page has been asked for with no cursor: the
\* request is on its way to the remote, or the cache has answered it.
FirstPageAsked ==
    \/ /\ proc'[PageProc].op = "getAllOrders"
       /\ \/ /\ proc'[PageProc].pc \in {"connecting", "sent"}
             /\ proc'[PageProc].hist = <<>>
             /\ proc'[PageProc].key = OrdersKey(PageOptions(Undefined))
          \/ /\ proc'[PageProc].pc = "loop"
             /\ Len(proc'[PageProc].hist) = 1
             /\ proc'[PageProc].hist[1].how = "hit"
    \/ /\ proc' = proc
       /\ Len(lastCall'.hist) = 1
       /\ lastCall'.hist[1].how = "hit"

\* Every request in flight passes the endCursor of the page before it (none
\* for the first); every page with orders is the remote's answer to that
\* cursor; a returned call returns what its pages added, in order, and their
\* number as totalFetched.
CursorsAndItems ==
    /\ \A f \in PageFrames :
          /\ f.pc \in {"connecting", "sent", "served"}
                => f.key = OrdersKey(PageOptions(CursorAfter(f.hist)))
          /\ \A i \in 1..Len(f.hist) :
                (f.hist[i].body.shape \in {"array", "object"}
                   /\ f.hist[i].body.orders # <<>>)
                   => f.hist[i].body.orders[1].after = CursorAfter(SubSeq(f.hist, 1, i - 1))
          /\ (f.pc = "done" /\ f.ret.kind = "value")
                => /\ f.ret.v.orders = FetchedItems(f.hist)
                   /\ f.ret.v.totalFetched = Len(f.ret.v.orders)

\* C14 (pagination algorithm), as claimed: every call of getAllOrders, for
\* every maxPages, asks for its first page with no cursor, whatever the stop
\* condition says; later requests pass the previous page's endCursor; the
\* result is the concatenation of the pages in order with its length.
C14_Algorithm ==
    /\ [][CallsGetAllOrders => FirstPageAsked]_vars
    /\ [](CursorsAndItems)

\* C14 amended: the loop condition is evaluated before the first request.  A
\* call with maxPages >= 1 asks for its first page with no cursor; a call with
\* maxPages <= 0 asks for no page and returns at once no orders, totalFetched
\* = 0 and hasMore = true.  The rest as claimed.
C14_AlgorithmWhile ==
    /\ [][CallsGetAllOrders =>
            \/ /\ \/ proc'[PageProc].maxPages >= 1 /\ proc'[PageProc].op = "getAllOrders"
                  \/ proc' = proc /\ lastCall'.maxPages >= 1
               /\ FirstPageAsked
            \/ /\ proc' = proc
               /\ lastCall'.maxPages <= 0
               /\ lastCall'.hist = <<>>
               /\ lastCall' = Finished([IdleProc EXCEPT !.client = CliClient,
                                                        !.op = "getAllOrders",
                                                        !.maxPages = lastCall'.maxPages],
                                       Value([orders |-> <<>>, totalFetched |-> 0,
                                              hasMore |-> TRUE]))
               /\ entries' = entries]_vars
    /\ [](CursorsAndItems)

\* A call has returned three orders after three pages, the second asked for
\* with the first's endCursor c1 and the third with the second's endCursor c2.
C14_Witness ==
    /\ lastCall.op = "getAllOrders"
    /\ lastCall.pc = "done"
    /\ lastCall.ret.kind = "value"
    /\ Len(lastCall.hist) = 3
    /\ lastCall.hist[1].body.endCursor = "c1"
    /\ lastCall.hist[2].body.endCursor = "c2"
    /\ lastCall.ret.v.orders = <<Item(Undefined), Item("c1"), Item("c2")>>
    /\ lastCall.ret.v.totalFetched = 3

\* C15 (bare array): when a page is a bare array, its items are appended to
\* what was accumulated, it is the last page of the call (the call is at the
\* head of the loop with hasNextPage false, or has ended; nothing is asked
\* for after it), and the call returns hasMore = false, whatever maxPages is.
C15_BareArray ==
    \A f \in PageFrames :
       \A i \in 1..Len(f.hist) :
          f.hist[i].body.shape = "array"
             => /\ i = Len(f.hist)
                /\ f.pc \in {"loop", "done"}
                /\ ~f.hasNextPage
                /\ f.allOrders = FetchedItems(SubSeq(f.hist, 1, i - 1)) \o f.hist[i].body.orders
                /\ f.pc = "done"
                      => f.ret = Value([orders |-> f.allOrders,
                                        totalFetched |-> Len(f.allOrders),
                                        hasMore |-> FALSE])

\* With maxPages = 3 the second page was a bare array: the call has returned
\* two orders and hasMore = false after two pages.
C15_Witness ==
    /\ lastCall.op = "getAllOrders"
    /\ lastCall.pc = "done"
    /\ lastCall.maxPages = 3
    /\ Len(lastCall.hist) = 2
    /\ lastCall.hist[2].body.shape = "array"
    /\ lastCall.ret.kind = "value"
    /\ Len(lastCall.ret.v.orders) = 2
    /\ ~lastCall.ret.v.hasMore

\* C16 (getAllOrders is not cached), as claimed: no step of a getAllOrders
\* call changes the entries of the store, and no page a call is given comes
\* from the store.
C16_NotCached ==
    /\ [][(CallsGetAllOrders \/ proc[PageProc].op = "getAllOrders") => entries' = entries]_vars
    /\ [](\A f \in PageFrames : \A i \in 1..Len(f.hist) : f.hist[i].how # "hit")

\* What the code does: each page is a getOrders call.  While the store is
\* enabled, a page fetched from the remote is stored under the orders key of
\* its cursor for five minutes, and a page asked for while a fresh entry is
\* stored under that key is taken from the store without a request.
C16_PagesCached ==
    [][/\ (/\ proc[PageProc].op = "getAllOrders"
           /\ proc[PageProc].pc = "served"
           /\ proc[PageProc].mode = "miss"
           /\ proc[PageProc].resp.kind = "ok"
           /\ enabled
           /\ proc'[PageProc] # proc[PageProc])
             => /\ proc[PageProc].key = OrdersKey(PageOptions(proc[PageProc].cursor))
                /\ proc[PageProc].key \in DOMAIN entries'
                /\ entries'[proc[PageProc].key] =
                      [value |-> proc[PageProc].resp.body,
                       expiresAt |-> now + TTL_FIVE_MINUTES, storedAt |-> now]
       /\ (/\ CallsGetAllOrders
           /\ NonBypassed
           /\ Fresh(OrdersKey(PageOptions(Undefined))))
             => /\ proc'[PageProc].pc \notin {"connecting", "sent"}
                /\ stats'.hits = stats.hits + 1]_vars

\* A second getAllOrders call has returned two pages, both taken from the
\* store, where the first call had put them.
C16_Witness ==
    /\ lastCall.op = "getAllOrders"
    /\ lastCall.pc = "done"
    /\ lastCall.ret.kind = "value"
    /\ Len(lastCall.hist) = 2
    /\ \A i \in 1..2 : lastCall.hist[i].how = "hit"
    /\ stats.sets >= 2
    /\ calls = 2

\* This step is the synchronous client method op, run from call to return.
SyncStep(op) ==
    /\ calls' = calls + 1
    /\ proc' = proc
    /\ lastCall'.op = op

\* C17 (disabling and enabling keep the entries): disableCache and
\* enableCache leave every entry as it is; while the store is disabled every
\* read that is called sends its fetch, and no step writes or changes an
\* entry; and once the store is enabled again, a read of a key whose entry is
\* there and has not expired returns the stored value at once, without a
\* fetch.
C17_TogglePreserves ==
    [][/\ SyncStep("disableCache") => (entries' = entries /\ ~enabled')
       /\ SyncStep("enableCache")
             => (entries' = entries /\ enabled' /\ ~cacheDisabled'[CliClient])
       /\ ~enabled
             => /\ \A k \in DOMAIN entries' :
                      k \in DOMAIN entries /\ entries'[k] = entries[k]
                /\ stats'.sets = stats.sets
                /\ \A p \in Procs :
                      (proc[p].pc = "idle" /\ proc'[p].op \in ReadOps)
                         => InvokesFetch(proc'[p].key, "bypass")
       /\ \A k \in DOMAIN entries :
             (CallsGetOrFetch(k) /\ NonBypassed /\ Fresh(k))
                => ReturnsCached(entries[k].value)]_vars

\* A read was stored, and the latest read was a hit on that entry, the only
\* one ever written, while a read sent during a disabled spell is still in
\* flight: five calls in all, the two others being disableCache and
\* enableCache.
C17_Witness ==
    /\ calls = 5
    /\ enabled
    /\ lastCall.op = "getOrderById"
    /\ lastCall.mode = "hit"
    /\ lastCall.ret.kind = "value"
    /\ lastCall.ret.v = entries[lastCall.key].value
    /\ stats.sets = 1
    /\ stats.misses = 1
    /\ stats.hits = 1
    /\ \E p \in Procs : proc[p].pc # "idle" /\ proc[p].mode = "bypass"

\* The read in slot q is in flight on the miss path for key k.
MissInFlight(q, k) ==
    /\ proc[q].pc \in {"connecting", "sent", "served"}
    /\ proc[q].op \in ReadOps
    /\ proc[q].mode = "miss"
    /\ proc[q].key = k

\* C18 (concurrent misses): a read of k called while another read of k is in
\* flight on the miss path and no fresh entry is stored misses too and sends
\* its own fetch, leaving the other in flight; and whenever one of two such
\* reads settles with a value on the enabled store, it writes the value of
\* its own fetch over whatever is stored (the later write wins) and returns
\* that value to its caller.
C18_ConcurrentMisses ==
    [][\A p, q \in Procs :
          /\ (/\ p # q
              /\ MissInFlight(q, proc'[p].key)
              /\ proc[p].pc = "idle"
              /\ proc'[p].op \in ReadOps
              /\ NonBypassed
              /\ ~Fresh(proc'[p].key))
                => /\ proc'[p].mode = "miss"
                   /\ proc'[p].pc \in {"connecting", "sent"}
                   /\ proc'[q] = proc[q]
                   /\ stats'.misses = stats.misses + 1
          /\ (/\ p # q
              /\ MissInFlight(p, proc[p].key)
              /\ ReadSettles(p)
              /\ proc[p].resp.kind = "ok"
              /\ enabled
              /\ \/ MissInFlight(q, proc[p].key)
                 \/ /\ lastCall.key = proc[p].key
                    /\ lastCall.mode = "miss"
                    /\ proc[p].key \in DOMAIN entries)
                => /\ entries'[proc[p].key].value = proc[p].resp.body
                   /\ entries'[proc[p].key].expiresAt = now + proc[p].ttl
                   /\ stats'.sets = stats.sets + 1
                   /\ lastCall' = Finished(proc[p], Value(proc[p].resp.body))
                   /\ proc'[q] = proc[q]]_vars

\* Two reads of one key both missed; one has returned and stored the value it
\* fetched, and the other holds the answer to its own fetch, another value,
\* which it is about to store and return.
C18_Witness ==
    /\ stats.misses = 2
    /\ stats.sets = 1
    /\ stats.hits = 0
    /\ lastCall.op = "getOrderById"
    /\ lastCall.mode = "miss"
    /\ lastCall.ret.kind = "value"
    /\ \E p \in Procs :
          /\ MissInFlight(p, lastCall.key)
          /\ proc[p].pc = "served"
          /\ proc[p].resp.kind = "ok"
          /\ Fresh(proc[p].key)
          /\ entries[proc[p].key].value = lastCall.ret.v
          /\ entries[proc[p].key].value # proc[p].resp.body

\* The parameters of an object literal that are present, with their values.
PresentParams(params) ==
    {<<name, ParamValue(params, name)>> :
        name \in {n \in KeyParamNames : ParamValue(params, n) # Undefined}}

\* C19 (key determinism): the key made of a namespace and a parameter mapping
\* begins with the namespace, and two mappings with the same present
\* parameters and values, in whatever insertion order and with whatever
\* absent parameters besides, get the same key.
C19_KeyDeterminism ==
    cacheKey # <<>>
       => /\ StartsWith(cacheKey[1], keyArgs.namespace)
          /\ StartsWith(cacheKey[2], keyArgs.namespace)
          /\ cacheKey[1] = createCacheKey(keyArgs.namespace, keyArgs.first)
          /\ PresentParams(keyArgs.first) = PresentParams(keyArgs.second)
                => cacheKey[1] = cacheKey[2]

\* One key was made of {status: "1", limit: "2"} and of {after: undefined,
\* limit: "2", status: "1"}.
C19_Witness ==
    /\ cacheKey # <<>>
    /\ keyArgs.first = <<<<"status", "1">>, <<"limit", "2">>>>
    /\ keyArgs.second = <<<<"after", Undefined>>, <<"limit", "2">>, <<"status", "1">>>>
    /\ cacheKey[1] = cacheKey[2]
    /\ Len(cacheKey[1]) = Len(keyArgs.namespace) + 9

\* C20 (clear): clearCache leaves no entry, returns the number of entries
\* that were stored just before it, and changes nothing else: the enabled
\* flag, the four counters, the client's flag and the calls in flight are as
\* before.
C20_Clear ==
    [][SyncStep("clearCache")
          => /\ entries' = <<>>
             /\ lastCall'.ret = Value(Cardinality(DOMAIN entries))
             /\ enabled' = enabled
             /\ stats' = stats
             /\ cacheDisabled' = cacheDisabled
             /\ connected' = connected
             /\ proc' = proc]_vars

\* clearCache has returned 2 after two reads had been stored: no entry is
\* left and the counters still show the two misses and the two sets.
C20_Witness ==
    /\ lastCall.op = "clearCache"
    /\ lastCall.ret = Value(2)
    /\ entries = <<>>
    /\ enabled
    /\ stats = [hits |-> 0, misses |-> 2, sets |-> 2, invalidations |-> 0]

\* C21 (invalidation results): invalidatePattern removes exactly the entries
\* whose key matches the pattern, leaves every other entry as it is and
\* returns the number of entries it removed; when no key matches it returns 0,
\* does not throw and leaves entries, counters and the enabled flag unchanged.
\* invalidate(key), called through invalidateCacheKey, removes that entry and
\* no other, and returns true exactly when there was an entry for the key.
C21_Invalidation ==
    [][/\ \A pattern \in CachePatterns :
             (SyncStep("invalidatePattern") /\ lastCall'.key = pattern)
                => /\ DOMAIN entries' = DOMAIN entries \ Matching(pattern)
                   /\ \A k \in DOMAIN entries' : entries'[k] = entries[k]
                   /\ lastCall'.ret =
                         Value(Cardinality(DOMAIN entries) - Cardinality(DOMAIN entries'))
                   /\ Matching(pattern) = {}
                         => /\ lastCall'.ret = Value(0)
                            /\ entries' = entries
                            /\ stats' = stats
                            /\ enabled' = enabled
       /\ \A key \in CacheKeys :
             (SyncStep("invalidateCacheKey") /\ lastCall'.key = key)
                => /\ DOMAIN entries' = DOMAIN entries \ {key}
                   /\ \A k \in DOMAIN entries' : entries'[k] = entries[k]
                   /\ lastCall'.ret = Value(key \in DOMAIN entries)]_vars

\* With an entry under "order:" and one under "orders:" stored,
\* invalidatePattern(/^orders/) has returned 1 and the "order:" entry is left.
C21_Witness ==
    /\ lastCall.op = "invalidatePattern"
    /\ lastCall.key = NsOrders
    /\ lastCall.ret = Value(1)
    /\ stats.sets = 2
    /\ stats.invalidations = 1
    /\ DOMAIN entries = {createCacheKey(NsOrder, <<<<"id", "7">>>>)}

\* This step is a call of the cache's getOrFetch for key k.
CallsCacheGetOrFetch(k) ==
    /\ calls' = calls + 1
    /\ \/ \E p \in Procs : /\ proc[p].pc = "idle"
                           /\ proc'[p].op = "getOrFetch"
                           /\ proc'[p].key = k
       \/ /\ proc' = proc
          /\ lastCall'.op = "getOrFetch"
          /\ lastCall'.key = k

\* C22 (zero or negative TTL): a miss with ttl <= 0 whose fetch succeeds on
\* the enabled store writes its entry (the value is stored under the key, sets
\* goes up by one, the key counts in the size) and returns the value, and the
\* entry is stale from the start (its expiresAt is not in the future); a
\* getOrFetch called on a key whose entry was written with ttl <= 0 is never
\* answered from the store, and when it is not a bypass it is counted as a
\* miss and sends its fetch.
C22_NonPositiveTTL ==
    [][/\ \A p \in Procs :
             (/\ proc[p].op = "getOrFetch"
              /\ proc[p].pc = "served"
              /\ proc'[p] # proc[p]
              /\ proc[p].mode = "miss"
              /\ proc[p].resp.kind = "ok"
              /\ proc[p].ttl <= 0
              /\ enabled)
                => /\ proc[p].key \in DOMAIN entries'
                   /\ entries'[proc[p].key].value = proc[p].resp.body
                   /\ entries'[proc[p].key].expiresAt <= now'
                   /\ stats'.sets = stats.sets + 1
                   /\ Cardinality(DOMAIN entries') = Cardinality(DOMAIN entries \cup {proc[p].key})
                   /\ lastCall' = Finished(proc[p], Value(proc[p].resp.body))
       /\ \A k \in DOMAIN entries :
             (CallsCacheGetOrFetch(k) /\ entries[k].expiresAt <= entries[k].storedAt)
                => /\ proc' # proc
                   /\ stats'.hits = stats.hits
                   /\ \/ InvokesFetch(k, "bypass")
                      \/ /\ InvokesFetch(k, "miss")
                         /\ stats'.misses = stats.misses + 1]_vars

\* Two calls of getOrFetch on one key with ttl = 0, with no time passing, have
\* both missed and both written: two misses, two sets, no hit, size 1.
C22_Witness ==
    /\ now = 0
    /\ lastCall.op = "getOrFetch"
    /\ lastCall.mode = "miss"
    /\ lastCall.ttl = 0
    /\ lastCall.ret.kind = "value"
    /\ stats = [hits |-> 0, misses |-> 2, sets |-> 2, invalidations |-> 0]
    /\ DOMAIN entries = {lastCall.key}
    /\ entries[lastCall.key].expiresAt = 0

\* C23 (statistics are monotone): no step of getOrFetch, invalidate,
\* invalidatePattern, clear, enable, disable or getStats, in whatever order
\* and interleaving, lowers hits, misses, sets or invalidations; and getStats
\* returns the counters and the size as they are and changes no counter, no
\* entry and not the enabled flag.
C23_StatsMonotone ==
    [][/\ stats'.hits >= stats.hits
       /\ stats'.misses >= stats.misses
       /\ stats'.sets >= stats.sets
       /\ stats'.invalidations >= stats.invalidations
       /\ SyncStep("getCacheStats")
             => /\ stats' = stats
                /\ entries' = entries
                /\ enabled' = enabled
                /\ lastCall'.ret =
                      Value([stats |-> stats, size |-> Cardinality(DOMAIN entries)])]_vars

\* After a miss that was stored and a hit on it, getStats has returned one
\* hit, one miss, one set and size 1, and the counters are still those.
C23_Witness ==
    /\ lastCall.op = "getCacheStats"
    /\ lastCall.ret = Value([stats |-> stats, size |-> 1])
    /\ stats = [hits |-> 1, misses |-> 1, sets |-> 1, invalidations |-> 0]
    /\ Cardinality(DOMAIN entries) = 1

\* No call is in flight.
AllFinished == \A p \in Procs : proc[p].pc = "idle"

\* C24 (no stale write survives a mutation), as claimed: once the reads and
\* updateOrder calls have all finished, no entry under the "order" prefix
\* holds a value that was fetched before the update was applied.
C24_NoStaleWrite ==
    AllFinished
       => \A k \in DOMAIN entries :
             StartsWith(k, NsOrder) => entries[k].value.ver = remoteVer

\* What the code does: a read that missed stores and returns the value its
\* fetch brought, also when the remote data has been updated since that value
\* was read; nothing compares it with what happened in between.
C24_StaleWrite ==
    [][\A p \in Procs :
          (/\ ReadSettles(p)
           /\ proc[p].mode = "miss"
           /\ proc[p].resp.kind = "ok"
           /\ proc[p].resp.body.ver < remoteVer
           /\ enabled)
             => /\ proc[p].key \in DOMAIN entries'
                /\ entries'[proc[p].key] =
                      [value |-> proc[p].resp.body, expiresAt |-> now + proc[p].ttl,
                       storedAt |-> now]
                /\ lastCall' = Finished(proc[p], Value(proc[p].resp.body))]_vars

\* A read of the order and an updateOrder have both finished; the update was
\* applied and its invalidation found nothing to remove; the read, answered
\* before the update, resumed last and its value of before the update is the
\* fresh entry of the order.
C24_Witness ==
    /\ AllFinished
    /\ calls = 2
    /\ remoteVer = 1
    /\ stats = [hits |-> 0, misses |-> 1, sets |-> 1, invalidations |-> 0]
    /\ lastCall.op = "getOrderById"
    /\ lastCall.mode = "miss"
    /\ lastCall.ret = Value(Data(0))
    /\ Fresh(lastCall.key)
    /\ entries[lastCall.key].value = Data(0)

OrderMutations == {"updateOrder", "updateFulfillmentTracking"}
OrderReads == {"getOrderById", "getOrders", "getCustomerOrders"}

\* The call that finished last is an order mutation that succeeded.
AfterOrderMutation == lastCall.op \in OrderMutations /\ lastCall.ret.kind = "value"

\* This step is a call of the read op.
CallsRead(op) ==
    /\ calls' = calls + 1
    /\ \/ \E p \in Procs : proc[p].pc = "idle" /\ proc'[p].op = op
       \/ proc' = proc /\ lastCall'.op = op

\* This step sends a request to the remote.
SendsFetch ==
    \E p \in Procs : proc[p].pc = "idle" /\ proc'[p].pc \in {"connecting", "sent"}

\* C25 (reads after an order mutation), as claimed: a getOrderById, getOrders
\* or getCustomerOrders called next after updateOrder or
\* updateFulfillmentTracking has succeeded fetches from the remote.
C25_ReadsRefetch ==
    [][\A op \in OrderReads : (AfterOrderMutation /\ CallsRead(op)) => SendsFetch]_vars

\* What the code does: /^order/ matches the keys of getOrderById ("order:")
\* and getOrders ("orders:"), so these reads, called next after the mutation,
\* miss and fetch; it does not match "customer_orders:", so a fresh entry of
\* getCustomerOrders outlives the mutation and the read returns it without a
\* fetch.
C25_OrderPrefixOnly ==
    [][/\ \A op \in {"getOrderById", "getOrders"} :
             (AfterOrderMutation /\ CallsRead(op) /\ NonBypassed)
                => \E p \in Procs : InvokesFetch(proc'[p].key, "miss") /\ proc'[p].op = op
       /\ \A p \in Procs :
             (/\ MutationSteps(p)
              /\ proc[p].op \in OrderMutations
              /\ proc[p].pc = "served"
              /\ proc[p].resp.kind = "ok")
                => \A k \in DOMAIN entries :
                      StartsWith(k, NsCustomerOrders)
                         => k \in DOMAIN entries' /\ entries'[k] = entries[k]
       /\ \A k \in DOMAIN entries :
             (/\ AfterOrderMutation
              /\ CallsRead("getCustomerOrders")
              /\ NonBypassed
              /\ StartsWith(k, NsCustomerOrders)
              /\ Fresh(k))
                => ReturnsCached(entries[k].value)]_vars

\* getCustomerOrders was stored, an order mutation was applied, and the next
\* getCustomerOrders has returned the stored orders of before the mutation.
C25_Witness ==
    /\ AllFinished
    /\ calls = 3
    /\ remoteVer = 1
    /\ lastCall.op = "getCustomerOrders"
    /\ lastCall.mode = "hit"
    /\ lastCall.ret = Value(Data(0))
    /\ stats = [hits |-> 1, misses |-> 1, sets |-> 1, invalidations |-> 0]

\* The getAllOrders frames that wait for a page.
AwaitingPage(f) == f.pc \in {"connecting", "sent", "served"}

\* C26 (the first page is requested once), as claimed: in a getAllOrders call
\* every request after the first passes a cursor, and the orders of the first
\* page are not accumulated twice.
C26_FirstPageOnce ==
    \A f \in PageFrames :
       /\ \A i \in 2..Len(f.hist) : CursorAfter(SubSeq(f.hist, 1, i - 1)) # Undefined
       /\ (AwaitingPage(f) /\ Len(f.hist) >= 1) => f.cursor # Undefined
       /\ \A i, j \in 1..Len(f.allOrders) :
             (i # j /\ f.allOrders[i] = Item(Undefined)) => f.allOrders[j] # f.allOrders[i]

\* What the code does: cursor becomes the page's pageInfo.endCursor whether
\* or not there is one.  After a page with orders and no endCursor the loop
\* either ends or asks again with no cursor, which is the request for the
\* first page: the answer is a page of the start, taken from the store when
\* the first page is still fresh there.
C26_MissingCursorRepeats ==
    \A f \in PageFrames :
       /\ \A i \in 1..(Len(f.hist) - 1) :
             (f.hist[i].body.shape = "object" /\ f.hist[i].body.endCursor = Undefined)
                => /\ ReportsTrue(f.hist[i])
                   /\ f.hist[i + 1].body \in PageBodies(Undefined) \cup {FailedPage}
       /\ (/\ AwaitingPage(f)
           /\ Len(f.hist) >= 1
           /\ LastPage(f).body.shape = "object"
           /\ LastPage(f).body.endCursor = Undefined)
             => /\ f.cursor = Undefined
                /\ f.key = OrdersKey(PageOptions(Undefined))

\* With maxPages = 3 the first page reported a next page and gave no
\* endCursor: the call has returned the first page's order three times, the
\* second and third time from the store.
C26_Witness ==
    /\ lastCall.op = "getAllOrders"
    /\ lastCall.pc = "done"
    /\ lastCall.maxPages = 3
    /\ Len(lastCall.hist) = 3
    /\ \A i \in 1..3 :
          ReportsTrue(lastCall.hist[i]) /\ lastCall.hist[i].body.endCursor = Undefined
    /\ lastCall.hist[2].how = "hit"
    /\ lastCall.hist[3].how = "hit"
    /\ lastCall.ret = Value([orders |-> <<Item(Undefined), Item(Undefined), Item(Undefined)>>,
                             totalFetched |-> 3, hasMore |-> TRUE])

\* This step is a call of connect(), callTool or listTools on client c.
CallsConnect(c) ==
    /\ calls' = calls + 1
    /\ \/ \E p \in Procs : /\ proc[p].pc = "idle"
                           /\ proc'[p].op \in ToolOps \cup {"connect"}
                           /\ proc'[p].client = c
       \/ proc' = proc /\ lastCall'.op = "connect" /\ lastCall'.client = c

\* C27 (single connection), as claimed: a transport is created only by a call
\* made while connected is false, a connect() called while connected has no
\* effect, and between two disconnects at most one transport is created,
\* however callTool, listTools and connect calls overlap.
C27_SingleConnection ==
    /\ [][\A c \in Clients :
             /\ transports'[c] > transports[c] => ~connected[c]
             /\ (CallsConnect(c) /\ connected[c] /\ proc' = proc)
                   => UNCHANGED <<cacheVars, clientVars>>]_vars
    /\ [](\A c \in Clients : transports[c] <= 1)

\* What the code does: the guard of connect() reads this.connected, which
\* becomes true only when client.connect has resolved.  Every call of
\* connect(), callTool or listTools made while connected is false creates a
\* transport of its own and waits for client.connect, also when another call
\* is already connecting; a call made while connected is true creates none,
\* and a connect() called then returns with nothing changed.
C27_ConnectGuard ==
    [][\A c \in Clients :
          CallsConnect(c)
             => IF connected[c]
                THEN /\ transports' = transports
                     /\ connected' = connected
                     /\ \A p \in Procs : proc'[p].pc # "connecting" \/ proc'[p] = proc[p]
                     /\ proc' = proc => UNCHANGED <<cacheVars, clientVars>>
                ELSE /\ transports'[c] = transports[c] + 1
                     /\ connected' = connected
                     /\ \E p \in Procs : proc[p].pc = "idle" /\ proc'[p].pc = "connecting"]_vars

\* Two calls overlap before the first client.connect has resolved: each has
\* created a transport.
C27_Witness ==
    /\ transports[CliClient] = 2
    /\ ~connected[CliClient]
    /\ \A p \in Procs : proc[p].pc = "connecting"
    /\ calls = 2

\* C28 (requests are sent while connected), as claimed: whenever callTool or
\* listTools sends its request, connected is true, however the calls
\* interleave with disconnect(); and a callTool or listTools called while
\* connected is false sends nothing before it has connected again.
C28_SendsConnected ==
    /\ [][\A p \in Procs :
             (proc[p].pc = "idle" /\ proc'[p].op \in ToolOps /\ ~connected[proc'[p].client])
                => proc'[p].pc = "connecting"]_vars
    /\ [](\A p \in Procs : proc[p].sentWhile # "unconnected")

\* What the code does: callTool and listTools look at this.connected once,
\* inside connect(), and send when await this.connect() resumes, without
\* looking again.  A call made while connected is false waits for
\* client.connect, which sets connected, before it resumes; a call made while
\* connected is true resumes later and sends whatever connected is by then;
\* and connected becomes false only when a disconnect() that was waiting for
\* client.close() resumes.
C28_ConnectThenSend ==
    [][\A p \in Procs :
          /\ (proc[p].pc = "idle" /\ proc'[p].op \in ToolOps)
                => /\ proc'[p].sentWhile = "none"
                   /\ proc'[p].pc = IF connected[proc'[p].client]
                                    THEN "connectReturned" ELSE "connecting"
          /\ (proc[p].pc = "connecting" /\ proc[p].op \in ToolOps /\ proc'[p] # proc[p])
                => /\ connected'[proc[p].client]
                   /\ proc'[p].pc = "connectReturned"
          /\ (proc[p].pc = "connectReturned" /\ proc'[p] # proc[p])
                => /\ proc'[p].pc = "sent"
                   /\ proc'[p].sentWhile =
                         IF connected[proc[p].client] THEN "connected" ELSE "unconnected"
                   /\ connected' = connected
          /\ \A c \in Clients :
                (connected[c] /\ ~connected'[c])
                   => \E q \in Procs : /\ proc[q].pc = "closing"
                                       /\ proc[q].client = c
                                       /\ proc'[q].pc = "idle"]_vars

\* A callTool or listTools was called while a disconnect() was waiting for
\* client.close(); the disconnect has finished, and the request has gone out
\* with connected = false.
C28_Witness ==
    /\ calls = 3
    /\ lastCall.op = "disconnect"
    /\ ~connected[CliClient]
    /\ transports[CliClient] = 0
    /\ \E p \in Procs : /\ proc[p].op \in ToolOps
                        /\ proc[p].pc = "sent"
                        /\ proc[p].sentWhile = "unconnected"

\* C29 (the client's flag agrees with the store), as claimed: in every state,
\* for every client instance, cacheDisabled is true exactly when the
\* module-level cache is disabled.
C29_FlagsAgree ==
    \A c \in Clients : cacheDisabled[c] <=> ~enabled

\* What the code does: disableCache and enableCache set the flag of the
\* instance they are called on and the enabled flag of the one shared store;
\* the flags of the other instances stay as they are.  A read bypasses the
\* store when its own instance's flag is set or the store is disabled.
C29_OwnFlagOnly ==
    [][/\ SyncStep("disableCache")
             => /\ ~enabled'
                /\ \E c \in Clients : cacheDisabled' = [cacheDisabled EXCEPT ![c] = TRUE]
       /\ SyncStep("enableCache")
             => /\ enabled'
                /\ \E c \in Clients : cacheDisabled' = [cacheDisabled EXCEPT ![c] = FALSE]
       /\ (~SyncStep("disableCache") /\ ~SyncStep("enableCache"))
             => UNCHANGED <<enabled, cacheDisabled>>
       /\ \A p \in Procs :
             (proc[p].pc = "idle" /\ proc'[p].op = "getOrderById")
                => (proc'[p].mode = "bypass"
                      <=> (cacheDisabled[proc'[p].client] \/ ~enabled))]_vars

\* One instance has called disableCache: the store is disabled, the other
\* instance's flag still says enabled, and a read of that other instance has
\* bypassed the store.
C29_Witness ==
    /\ ~enabled
    /\ cacheDisabled[1]
    /\ ~cacheDisabled[2]
    /\ lastCall.op = "getOrderById"
    /\ lastCall.client = 2
    /\ lastCall.mode = "bypass"
    /\ lastCall.ret.kind = "value"
    /\ calls = 2

====
